---------------------------- MODULE Spec2Model ----------------------------
(***************************************************************************)
(* A model of feathers-hooks-jsonapify (src/index.js): the `after` hook    *)
(* that turns the result of a `find` or a `get` into a JSON:API document.  *)
(*                                                                         *)
(* JavaScript values are tagged records.  A string is the sequence of its  *)
(* characters, so that dasherize and string concatenation are computed,    *)
(* not assumed.  An object is the sequence of its key/value entries in     *)
(* insertion order, which is the order Object.keys and JSON.stringify walk *)
(* (keys here are never integer-like).                                     *)
(***************************************************************************)
EXTENDS Integers, Sequences, FiniteSets, TLC

VARIABLES op, arg, out

vars == <<op, arg, out>>

---------------------------------------------------------------------------
(* JavaScript values *)

Undef == [t |-> "undefined"]

Null == [t |-> "null"]

NaN == [t |-> "NaN"]

Str(s) == [t |-> "string", s |-> s]

Num(n) == [t |-> "number", n |-> n]

Obj(f) == [t |-> "object", f |-> f]

Arr(q) == [t |-> "array", q |-> q]

(* A thrown TypeError: the value of an expression whose evaluation throws. *)
TypeError == [t |-> "throw"]

Threw(v) == v.t = "throw"

IsObj(v) == v.t = "object"

IsArr(v) == v.t = "array"

(* JavaScript truthiness. *)
Truthy(v) ==
  CASE v.t \in {"undefined", "null", "NaN", "false", "throw"} -> FALSE
    [] v.t = "string" -> v.s # <<>>
    [] v.t = "number" -> v.n # 0
    [] OTHER -> TRUE

---------------------------------------------------------------------------
(* Objects: entries [k, v] in insertion order *)

EmptyObj == Obj(<<>>)

KeysOf(f) == [i \in 1..Len(f) |-> f[i].k]

HasEntry(f, k) == \E i \in 1..Len(f) : f[i].k = k

EntryValue(f, k) == f[CHOOSE i \in 1..Len(f) : f[i].k = k].v

(* o[k] = v on entries: an existing key keeps its place. *)
PutEntry(f, k, v) ==
  IF HasEntry(f, k)
  THEN [i \in 1..Len(f) |-> IF f[i].k = k THEN [k |-> k, v |-> v] ELSE f[i]]
  ELSE Append(f, [k |-> k, v |-> v])

(* delete o[k] on entries. *)
DropEntry(f, k) == SelectSeq(f, LAMBDA e : e.k # k)

(* `k in o` for an object. *)
Has(o, k) == IsObj(o) /\ HasEntry(o.f, k)

(* o[k]: a property read.  Reading a property of undefined or null throws;  *)
(* a string or an array has none of the keys used here (they are neither    *)
(* `length` nor an index), so the read gives undefined.                     *)
Get(o, k) ==
  CASE o.t \in {"undefined", "null", "throw"} -> TypeError
    [] o.t = "object" -> IF HasEntry(o.f, k) THEN EntryValue(o.f, k) ELSE Undef
    [] OTHER -> Undef

Put(o, k, v) == Obj(PutEntry(o.f, k, v))

Delete(o, k) == Obj(DropEntry(o.f, k))

(* Object.keys(o) *)
Keys(o) == KeysOf(o.f)

(* A key is present and not undefined: what survives in the JSON response. *)
Present(o, k) == Has(o, k) /\ Get(o, k) # Undef

---------------------------------------------------------------------------
(* Strings: sequences of characters *)

UpperCase ==
  {"A", "B", "C", "D", "E", "F", "G", "H", "I", "J", "K", "L", "M",
   "N", "O", "P", "Q", "R", "S", "T", "U", "V", "W", "X", "Y", "Z"}

(* String.prototype.toLowerCase on one character. *)
LowerChar(c) ==
  CASE c = "A" -> "a" [] c = "B" -> "b" [] c = "C" -> "c" [] c = "D" -> "d"
    [] c = "E" -> "e" [] c = "F" -> "f" [] c = "G" -> "g" [] c = "H" -> "h"
    [] c = "I" -> "i" [] c = "J" -> "j" [] c = "K" -> "k" [] c = "L" -> "l"
    [] c = "M" -> "m" [] c = "N" -> "n" [] c = "O" -> "o" [] c = "P" -> "p"
    [] c = "Q" -> "q" [] c = "R" -> "r" [] c = "S" -> "s" [] c = "T" -> "t"
    [] c = "U" -> "u" [] c = "V" -> "v" [] c = "W" -> "w" [] c = "X" -> "x"
    [] c = "Y" -> "y" [] c = "Z" -> "z" [] OTHER -> c

ToLowerCase(s) == [i \in 1..Len(s) |-> LowerChar(s[i])]

(* str.replace(/([A-Z])/g, '-$1') *)
RECURSIVE DashBeforeUpper(_)
DashBeforeUpper(s) ==
  IF s = <<>> THEN <<>>
  ELSE (IF Head(s) \in UpperCase THEN <<"-", Head(s)>> ELSE <<Head(s)>>)
         \o DashBeforeUpper(Tail(s))

(* dasherize without lower-casing the first character first: every capital, *)
(* the leading one too, gets a dash.                                        *)
dasherize_KeepsLeadingCapital(str) == ToLowerCase(DashBeforeUpper(str))

(* dasherize(str): lower-case the first character, put a dash before every  *)
(* remaining capital, lower-case the whole.                                 *)
dasherize(str) ==
  IF str = <<>> THEN <<>>
  ELSE ToLowerCase(DashBeforeUpper(<<LowerChar(Head(str))>> \o Tail(str)))

DigitChar(d) ==
  CASE d = 0 -> "0" [] d = 1 -> "1" [] d = 2 -> "2" [] d = 3 -> "3"
    [] d = 4 -> "4" [] d = 5 -> "5" [] d = 6 -> "6" [] d = 7 -> "7"
    [] d = 8 -> "8" [] d = 9 -> "9"

(* The decimal digits of a natural number. *)
RECURSIVE Digits(_)
Digits(n) ==
  IF n < 10 THEN <<DigitChar(n)>> ELSE Digits(n \div 10) \o <<DigitChar(n % 10)>>

(* The string a value turns into under `+` with a string, and under String(). *)
ToStr(v) ==
  CASE v.t = "string" -> v.s
    [] v.t = "number" -> IF v.n < 0 THEN <<"-">> \o Digits(-v.n) ELSE Digits(v.n)
    [] v.t = "undefined" -> <<"u", "n", "d", "e", "f", "i", "n", "e", "d">>
    [] v.t = "null" -> <<"n", "u", "l", "l">>
    [] v.t = "NaN" -> <<"N", "a", "N">>
    [] v.t = "true" -> <<"t", "r", "u", "e">>
    [] v.t = "false" -> <<"f", "a", "l", "s", "e">>
    [] OTHER -> <<"[", "o", "b", "j", "e", "c", "t", "]">>

(* Names the code spells out. *)
kData == <<"d", "a", "t", "a">>

kIncluded == <<"i", "n", "c", "l", "u", "d", "e", "d">>

kMeta == <<"m", "e", "t", "a">>

kLinks == <<"l", "i", "n", "k", "s">>

kId == <<"i", "d">>

kType == <<"t", "y", "p", "e">>

kAttributes == <<"a", "t", "t", "r", "i", "b", "u", "t", "e", "s">>

kRelationships == <<"r", "e", "l", "a", "t", "i", "o", "n", "s", "h", "i", "p", "s">>

kSelf == <<"s", "e", "l", "f">>

kParent == <<"p", "a", "r", "e", "n", "t">>

kFirst == <<"f", "i", "r", "s", "t">>

kNext == <<"n", "e", "x", "t">>

kPrev == <<"p", "r", "e", "v">>

kLast == <<"l", "a", "s", "t">>

kSkip == <<"s", "k", "i", "p">>

kLimit == <<"l", "i", "m", "i", "t">>

kTotal == <<"t", "o", "t", "a", "l">>

Slash == <<"/">>

SkipQuery == <<"?", "$", "s", "k", "i", "p", "=">>

---------------------------------------------------------------------------
(* Sequelize instances and JSON.stringify *)

(* A Sequelize instance: toJSON() gives `json`, $options is `options`.      *)
Instance(json, options) == [t |-> "instance", json |-> json, options |-> options]

(* data.$options: the options of an instance; a plain object has none. *)
DollarOptions(data) ==
  CASE data.t = "instance" -> data.options
    [] data.t \in {"undefined", "null", "throw"} -> TypeError
    [] OTHER -> Undef

(* The JSON text of a value; an undefined property is left out, an          *)
(* undefined array element is written null.                                 *)
RECURSIVE JsonText(_)
RECURSIVE JsonEntries(_)
RECURSIVE JsonElements(_)
JsonEntries(f) ==
  IF f = <<>> THEN <<>>
  ELSE LET rest == JsonEntries(Tail(f))
       IN IF Head(f).v = Undef THEN rest
          ELSE <<"\"">> \o Head(f).k \o <<"\"", ":">> \o JsonText(Head(f).v)
                 \o (IF rest = <<>> THEN <<>> ELSE <<",">> \o rest)

JsonElements(q) ==
  IF q = <<>> THEN <<>>
  ELSE JsonText(Head(q)) \o (IF Len(q) = 1 THEN <<>> ELSE <<",">> \o JsonElements(Tail(q)))

JsonText(v) ==
  CASE v.t = "string" -> <<"\"">> \o v.s \o <<"\"">>
    [] v.t = "object" -> <<"{">> \o JsonEntries(v.f) \o <<"}">>
    [] v.t = "array" -> <<"[">> \o JsonElements(v.q) \o <<"]">>
    [] v.t = "instance" -> JsonText(v.json)
    [] v.t \in {"undefined", "NaN"} -> <<"n", "u", "l", "l">>
    [] OTHER -> ToStr(v)

(* JSON.stringify(v): a string, for every value but undefined. *)
JSONstringify(v) == IF v = Undef THEN Undef ELSE Str(JsonText(v))

(* The hex digest of a text.  The digest is kept symbolic: a marker and the *)
(* text it was taken of, so that equal texts have equal digests and         *)
(* different texts different ones.                                          *)
Sha256Hex(text) == <<"sha256:">> \o text

(* generateFauxId(data) *)
generateFauxId(data) == Str(Sha256Hex(ToStr(JSONstringify(data))))

---------------------------------------------------------------------------
(* The hook object and the functions that work on hook.result *)

(* hook: its method, its path, hook.service.Model (undefined on a service   *)
(* without a model), hook.service.options.name and hook.result.             *)
Hook(method, path, Model, serviceName, result) ==
  [t |-> "hook", method |-> method, path |-> path, Model |-> Model,
   serviceName |-> serviceName, result |-> result]

(* mustParseAsSequelize(hook), as the condition it is used for. *)
mustParseAsSequelize(hook) == hook.Model # Undef

(* The target of `last` without Math.floor and the multiplication: the      *)
(* total itself.                                                            *)
FloorDivTimes_NoFloor(total, limit) == Num(total)

(* Math.floor(total / limit) * limit on non-negative integers: a division   *)
(* by zero gives Infinity or NaN, and either times zero is NaN.             *)
FloorDivTimes(total, limit) ==
  IF limit = 0 THEN NaN ELSE Num((total \div limit) * limit)

SkipLink(path, target) == Str(Slash \o path \o SkipQuery \o ToStr(target))

(* createPagination(hook), for numeric skip, limit and total. *)
createPagination(hook) ==
  LET r == hook.result
      skip == Get(r, kSkip)
      limit == Get(r, kLimit)
      total == Get(r, kTotal)
  IN IF skip # Undef /\ total # Undef /\ limit # Undef
     THEN LET l1 == IF skip.n >= limit.n
                    THEN PutEntry(<<>>, kFirst, Str(Slash \o hook.path))
                    ELSE <<>>
              l2 == IF skip.n + limit.n < total.n
                    THEN PutEntry(l1, kNext, SkipLink(hook.path, Num(skip.n + limit.n)))
                    ELSE l1
              l3 == IF skip.n + limit.n > limit.n
                    THEN PutEntry(l2, kPrev, SkipLink(hook.path, Num(skip.n - limit.n)))
                    ELSE l2
              l4 == IF skip.n + limit.n < total.n
                    THEN PutEntry(l3, kLast, SkipLink(hook.path, FloorDivTimes(total.n, limit.n)))
                    ELSE l3
          IN [hook EXCEPT !.result = Put(r, kLinks, Obj(l4))]
     ELSE hook

ReservedKeys == {kData, kIncluded, kMeta, kLinks}

(* meta[dasherize(key)] = hook.result[key], for the keys in order. *)
RECURSIVE MoveToMeta(_, _, _)
MoveToMeta(meta, f, keys) ==
  IF keys = <<>> THEN meta
  ELSE MoveToMeta(PutEntry(meta, dasherize(Head(keys)), EntryValue(f, Head(keys))),
                  f, Tail(keys))

(* createMetadata(hook) *)
createMetadata(hook) ==
  LET f == hook.result.f
      metaKeys == SelectSeq(KeysOf(f), LAMBDA key : key \notin ReservedKeys)
      kept == SelectSeq(f, LAMBDA e : e.k \in ReservedKeys)
  IN IF metaKeys # <<>>
     THEN [hook EXCEPT !.result = Obj(PutEntry(kept, kMeta, Obj(MoveToMeta(<<>>, f, metaKeys))))]
     ELSE hook

(* newItem.attributes[key] = item[key]: the keys are not dash-cased. *)
RECURSIVE PlainAttributes_KeepsKey(_, _, _)
PlainAttributes_KeepsKey(attrs, f, keys) ==
  IF keys = <<>> THEN attrs
  ELSE PlainAttributes_KeepsKey(PutEntry(attrs, Head(keys), EntryValue(f, Head(keys))),
                                f, Tail(keys))

(* newItem.attributes[dasherize(key)] = item[key], for the keys in order. *)
RECURSIVE PlainAttributes(_, _, _)
PlainAttributes(attrs, f, keys) ==
  IF keys = <<>> THEN attrs
  ELSE PlainAttributes(PutEntry(attrs, dasherize(Head(keys)), EntryValue(f, Head(keys))),
                       f, Tail(keys))

(* serializePlainObject(item, options, hook), for an object `item`;         *)
(* options is [identifierKey, typeKey], each a string or undefined.         *)
serializePlainObject(item, options, hook) ==
  LET id == IF Truthy(options.identifierKey)
            THEN Get(item, options.identifierKey.s)
            ELSE generateFauxId(item)
      type == IF Truthy(options.typeKey)
              THEN Get(item, options.typeKey.s)
              ELSE hook.serviceName
      keys == SelectSeq(Keys(item),
                        LAMBDA key : Str(key) # options.identifierKey
                                     /\ Str(key) # options.typeKey)
  IN Obj(<<[k |-> kId, v |-> id],
           [k |-> kType, v |-> type],
           [k |-> kAttributes, v |-> Obj(PlainAttributes(<<>>, item.f, keys))],
           [k |-> kLinks,
            v |-> Obj(<<[k |-> kSelf, v |-> Str(Slash \o hook.path \o Slash \o ToStr(id))]>>)]>>)

(* The items in order, an item being dropped when its id is there already. *)
RECURSIVE UniqueRecords_FirstWins(_, _)
UniqueRecords_FirstWins(unique, collection) ==
  IF collection = <<>> THEN unique
  ELSE UniqueRecords_FirstWins(
         IF HasEntry(unique, ToStr(Get(Head(collection), kId))) THEN unique
         ELSE PutEntry(unique, ToStr(Get(Head(collection), kId)), Head(collection)),
         Tail(collection))

(* uniqueRecords[item.id] = item, for the items in order. *)
RECURSIVE UniqueRecords(_, _)
UniqueRecords(unique, collection) ==
  IF collection = <<>> THEN unique
  ELSE UniqueRecords(PutEntry(unique, ToStr(Get(Head(collection), kId)), Head(collection)),
                     Tail(collection))

(* removeDuplicateRecords(collection), on the elements of an array. *)
removeDuplicateRecords(collection) ==
  LET uniqueRecords == UniqueRecords(<<>>, collection)
  IN [i \in 1..Len(uniqueRecords) |-> uniqueRecords[i].v]

---------------------------------------------------------------------------
(* The jsonapi-serializer package, as jsonapify uses it: the legacy         *)
(* three-argument constructor with topLevelLinks and attributes, and the    *)
(* defaults for the rest (id taken from `id`, pluralized type, dash-case    *)
(* attribute keys).                                                         *)

LowerCaseOrDigit ==
  {LowerChar(c) : c \in UpperCase} \cup {DigitChar(d) : d \in 0..9}

(* Inflector.caserize with the default dash-case, for names without two     *)
(* capitals in a row: an underscore between a lower-case letter or digit    *)
(* and a capital, dashes to underscores, lower-case, underscores to dashes. *)
RECURSIVE CaserizeFrom(_, _)
CaserizeFrom(prev, s) ==
  IF s = <<>> THEN <<>>
  ELSE LET c == Head(s)
       IN (CASE c \in UpperCase /\ prev \in LowerCaseOrDigit -> <<"-", LowerChar(c)>>
             [] c = "_" -> <<"-">>
             [] OTHER -> <<LowerChar(c)>>)
            \o CaserizeFrom(c, Tail(s))

keyForAttribute(attribute) == CaserizeFrom("", attribute)

(* Inflector.pluralize, for regular nouns: an `s` unless there is one. *)
pluralize(name) ==
  IF name # <<>> /\ name[Len(name)] = "s" THEN name ELSE name \o <<"s">>

(* serializeNested(dest) without options: the keys of a plain object are    *)
(* converted, its values kept.                                              *)
serializeNested(dest) ==
  Obj([i \in 1..Len(dest.f) |-> [k |-> keyForAttribute(dest.f[i].k), v |-> dest.f[i].v]])

(* serialize(dest, current, attribute): the value an attribute is written as. *)
AttributeValue(v) ==
  CASE v.t = "object" -> serializeNested(v)
    [] v.t = "array" ->
         IF v.q # <<>> /\ IsObj(v.q[1])
         THEN Arr([i \in 1..Len(v.q) |-> serializeNested(v.q[i])])
         ELSE v
    [] OTHER -> v

RECURSIVE LibAttributes(_, _, _)
LibAttributes(attrs, record, names) ==
  IF names = <<>> THEN attrs
  ELSE LibAttributes(
         IF Has(record, Head(names))
         THEN PutEntry(attrs, keyForAttribute(Head(names)), AttributeValue(Get(record, Head(names))))
         ELSE attrs,
         record, Tail(names))

(* A TypeError if an element threw, else the array of the elements. *)
ArrOrThrow(q) == IF \E i \in 1..Len(q) : Threw(q[i]) THEN TypeError ELSE Arr(q)

(* SerializerUtils.perform on one record: null for null; a TypeError for    *)
(* undefined (record[id]) and for a primitive (`attribute in record`); the  *)
(* id is written when the record has one.                                   *)
Resource(collectionName, record, attributes) ==
  CASE record = Null -> Null
    [] record.t \in {"object", "array"} ->
         Obj(<<[k |-> kType, v |-> Str(pluralize(collectionName))]>>
             \o (IF Get(record, kId) # Undef
                 THEN <<[k |-> kId, v |-> Str(ToStr(Get(record, kId)))]>>
                 ELSE <<>>)
             \o (IF \E i \in 1..Len(attributes) : Has(record, attributes[i])
                 THEN <<[k |-> kAttributes,
                         v |-> Obj(LibAttributes(<<>>, record, attributes))]>>
                 ELSE <<>>))
    [] OTHER -> TypeError

(* The payload: [data, links], or the TypeError the data threw. *)
Payload(data, selfLink) ==
  IF Threw(data) THEN TypeError
  ELSE [t |-> "json", data |-> data, links |-> Obj(<<[k |-> kSelf, v |-> selfLink]>>)]

(* new JSONAPISerializer(collectionName, records, opts) with                *)
(* opts = {topLevelLinks: {self: selfLink}, attributes}.                    *)
JSONAPISerializer(collectionName, records, selfLink, attributes) ==
  Payload(IF IsArr(records)
          THEN ArrOrThrow([i \in 1..Len(records.q) |->
                             Resource(collectionName, records.q[i], attributes)])
          ELSE Resource(collectionName, records, attributes),
          selfLink)

---------------------------------------------------------------------------
(* Model metadata, association descriptors, and the document assembler *)

(* A Sequelize model: its name and its attributes in key order, each with   *)
(* its primaryKey flag.                                                     *)
Model(name, attributes) == [t |-> "model", name |-> name, attributes |-> attributes]

(* An entry of $options.include: include.as, include.model and, of          *)
(* include.association, targetKey, foreignKey and options.underscored.      *)
Include(as, model, targetKey, foreignKey, underscored) ==
  [t |-> "include", as |-> as, model |-> model, targetKey |-> targetKey,
   foreignKey |-> foreignKey, underscored |-> underscored]

(* The context jsonapify is given: an object whose `include` is an array of *)
(* descriptors or undefined.                                                *)
Context(include) == [t |-> "options", include |-> include]

(* Object.keys(model.attributes) *)
AttributeNames(model) == [i \in 1..Len(model.attributes) |-> model.attributes[i].name]

(* byPrimaryKey(model) *)
byPrimaryKey(model, attribute) ==
  \E i \in 1..Len(model.attributes) :
    model.attributes[i].name = attribute /\ model.attributes[i].primaryKey

(* byExcluded(excluded), for excluded = [idAttribute] *)
byExcluded(idAttribute, attribute) == Str(attribute) # idAttribute

(* Object.keys(model.attributes).filter(byPrimaryKey(model))[0] *)
IdAttribute(model) ==
  LET keys == SelectSeq(AttributeNames(model), LAMBDA a : byPrimaryKey(model, a))
  IN IF keys = <<>> THEN Undef ELSE Str(keys[1])

(* The attribute list handed to the serializer with the primary key left in. *)
SerializedAttributes_KeepsPrimaryKey(model) ==
  Append(AttributeNames(model), kRelationships)

(* Object.keys(model.attributes).filter(byExcluded(excluded))               *)
(*   .concat(['relationships'])                                             *)
SerializedAttributes(model) ==
  Append(SelectSeq(AttributeNames(model), LAMBDA a : byExcluded(IdAttribute(model), a)),
         kRelationships)

(* include.as.replace(/_/g, '-') *)
UnderscoresToDashes(s) == [i \in 1..Len(s) |-> IF s[i] = "_" THEN "-" ELSE s[i]]

(* relatedItem[relatedModelIdAttribute] = record[relatedModelIdAttribute] *)
WithTargetKey(include, id) ==
  IF Threw(id) THEN TypeError
  ELSE Obj(PutEntry(<<[k |-> kType, v |-> Str(include.model.name)]>>, include.targetKey, id))

(* createRelationshipObject(include, item), from item[include.as] on. *)
RelationshipObject(include, associationValue) ==
  CASE Threw(associationValue) -> TypeError
    [] IsArr(associationValue) ->
         ArrOrThrow([i \in 1..Len(associationValue.q) |->
                       WithTargetKey(include, Get(associationValue.q[i], include.targetKey))])
    [] IsObj(associationValue) ->
         WithTargetKey(include, Get(associationValue, include.targetKey))
    [] OTHER -> Null

(* createRelationshipObject(include, item) *)
createRelationshipObject(include, item) ==
  RelationshipObject(include, Get(item, include.as))

(* { links: { self: '/' + include.model.name + '/' + item.id } } *)
RelatedSelf(include, id) ==
  Obj(<<[k |-> kSelf, v |-> Str(Slash \o include.model.name \o Slash \o ToStr(id))]>>)

(* What parseRelationships leaves: the record and the included accumulator. *)
Parsed(data, includedData) ==
  [t |-> "parsed", data |-> data, includedData |-> includedData]

(* The same as StripAndRelate, with data.relationships = relationship: the  *)
(* entries that are there are not kept.                                     *)
StripAndRelate_DropsEarlier(data, include, reference) ==
  IF reference # Null
  THEN Put(Delete(Delete(data, include.foreignKey), include.as), kRelationships,
           Obj(<<[k |-> IF include.underscored THEN UnderscoresToDashes(include.as)
                        ELSE include.as,
                  v |-> Obj(<<[k |-> kData, v |-> reference]>>)]>>))
  ELSE Delete(Delete(data, include.foreignKey), include.as)

(* delete data[include.association.foreignKey]; delete data[include.as];    *)
(* and, for a reference that is not null, data.relationships =              *)
(* Object.assign({}, data.relationships, relationship).                     *)
StripAndRelate(data, include, reference) ==
  IF reference # Null
  THEN Put(Delete(Delete(data, include.foreignKey), include.as), kRelationships,
           Put(IF IsObj(Get(data, kRelationships)) THEN Get(data, kRelationships) ELSE EmptyObj,
               IF include.underscored THEN UnderscoresToDashes(include.as) ELSE include.as,
               Obj(<<[k |-> kData, v |-> reference]>>)))
  ELSE Delete(Delete(data, include.foreignKey), include.as)

(* The included accumulator after the serialized relationship is pushed to  *)
(* it: every item of an array with its own self link, a single document     *)
(* with the links of its serialization.                                     *)
Push(includedData, include, serializedRelationship) ==
  IF IsArr(serializedRelationship.document)
  THEN IF \E i \in 1..Len(serializedRelationship.document.q) :
            ~IsObj(serializedRelationship.document.q[i])
       THEN TypeError
       ELSE Arr(includedData \o
                [i \in 1..Len(serializedRelationship.document.q) |->
                   Put(serializedRelationship.document.q[i], kLinks,
                       RelatedSelf(include, Get(serializedRelationship.document.q[i], kId)))])
  ELSE Arr(Append(includedData,
                  Put(serializedRelationship.document, kLinks, serializedRelationship.links)))

(* parseRelationships, once the included accumulator is pushed to. *)
AfterPush(data, include, reference, pushed) ==
  IF Threw(pushed) THEN TypeError
  ELSE Parsed(StripAndRelate(data, include, reference), pushed.q)

(* parseRelationships, once the embedded value is serialized. *)
AfterRelated(data, includedData, include, reference, serializedRelationship) ==
  IF Threw(serializedRelationship) THEN TypeError
  ELSE AfterPush(data, include, reference, Push(includedData, include, serializedRelationship))

RECURSIVE jsonapify(_, _, _, _)
RECURSIVE ParseAll(_, _, _)

(* The nested call given the descriptor it is made for as its include list. *)
NestedContext_SameInclude(include) == Context(Arr(<<include>>))

(* { include: [] }: the context of the call parseRelationships makes for a  *)
(* descriptor.                                                              *)
NestedContext(include) == Context(Arr(<<>>))

(* parseRelationships, once the reference is built: data[include.as] is     *)
(* serialized unless it is null (undefined is not null, and its .id throws). *)
AfterReference(data, includedData, include, reference, embedded) ==
  CASE Threw(reference) -> TypeError
    [] embedded = Null -> Parsed(StripAndRelate(data, include, reference), includedData)
    [] Threw(Get(embedded, kId)) -> TypeError
    [] OTHER ->
         AfterRelated(data, includedData, include, reference,
                      jsonapify(embedded, include.model,
                                include.model.name \o Slash \o ToStr(Get(embedded, kId)),
                                NestedContext(include)))

(* parseRelationships(data, includedData)(include): the record and the      *)
(* included accumulator as the call leaves them, or a TypeError.            *)
parseRelationships(data, includedData, include) ==
  AfterReference(data, includedData, include,
                 createRelationshipObject(include, data), Get(data, include.as))

(* forEach, after one descriptor. *)
ParseRest(one, rest) ==
  IF Threw(one) THEN TypeError ELSE ParseAll(one.data, one.includedData, rest)

(* context.include.forEach(parseRelationships(data, includedData)) *)
ParseAll(data, includedData, includes) ==
  IF includes = <<>> THEN Parsed(data, includedData)
  ELSE ParseRest(parseRelationships(data, includedData, Head(includes)), Tail(includes))

(* json.data with attributes.relationships moved to the resource object. *)
Hoist(document, attributes) ==
  IF Truthy(attributes) /\ Truthy(Get(attributes, kRelationships))
  THEN Put(Put(document, kRelationships, Get(attributes, kRelationships)),
           kAttributes, Delete(attributes, kRelationships))
  ELSE document

(* jsonapify, once json.data.attributes is read. *)
Result(includedData, json, attributes) ==
  IF Threw(attributes) THEN TypeError
  ELSE [t |-> "result", document |-> Hoist(json.data, attributes), links |-> json.links,
        related |-> IF includedData # <<>> THEN Arr(includedData) ELSE Undef]

(* jsonapify, once the serializer has run. *)
AfterSerializer(includedData, json) ==
  IF Threw(json) THEN TypeError
  ELSE Result(includedData, json, Get(json.data, kAttributes))

(* jsonapify, once the relationships are parsed. *)
AfterParse(model, selfUrl, parsed) ==
  IF Threw(parsed) THEN TypeError
  ELSE AfterSerializer(parsed.includedData,
                       JSONAPISerializer(model.name, parsed.data, Str(Slash \o selfUrl),
                                         SerializedAttributes(model)))

(* jsonapify(data, model, selfUrl, context): [document, links, related],    *)
(* related undefined when nothing was included; or a TypeError.             *)
jsonapify(data, model, selfUrl, context) ==
  AfterParse(model, selfUrl,
             CASE context = Undef -> TypeError
               [] context.include # Undef /\ context.include.q # <<>> ->
                    ParseAll(data, <<>>, context.include.q)
               [] OTHER -> Parsed(data, <<>>))

---------------------------------------------------------------------------
(* The entry points *)

(* The options of the hook factory: identifierKey and typeKey, each a       *)
(* string or undefined.                                                     *)
Options(identifierKey, typeKey) == [identifierKey |-> identifierKey, typeKey |-> typeKey]

(* const jsonItem = JSON.stringify(data) *)
JsonItem(data) == JSONstringify(data)

(* serialized = jsonapify(jsonItem, hook.service.Model,                     *)
(*                        hook.path + '/' + jsonItem.id, context)           *)
Serialized(hook, jsonItem, itemId, context) ==
  CASE Threw(itemId) -> TypeError
    [] Threw(context) -> TypeError
    [] OTHER -> jsonapify(jsonItem, hook.Model, hook.path \o Slash \o ToStr(itemId), context)

(* serialized, for the record `data` of a find or a get. *)
SerializedItem(hook, data, jsonItem) ==
  Serialized(hook, jsonItem, Get(jsonItem, kId), DollarOptions(data))

(* hook.result after one record of the find: the document with its links in *)
(* place of the record, the related resources added to included.            *)
Stored(result, index, serialized) ==
  Put(Put(result, kData,
          Arr([Get(result, kData).q EXCEPT
                 ![index] = Put(serialized.document, kLinks, serialized.links)])),
      kIncluded,
      IF serialized.related # Undef
      THEN Arr(Get(result, kIncluded).q \o serialized.related.q)
      ELSE Get(result, kIncluded))

RECURSIVE FindEach(_, _)

(* The body of the forEach, once the record is serialized. *)
FindStore(hook, index, serialized) ==
  IF Threw(serialized) THEN TypeError
  ELSE FindEach(createPagination([hook EXCEPT !.result = Stored(hook.result, index, serialized)]),
                index + 1)

(* hook.result.data.forEach in jsonapifyViaFind, from the record at `index` *)
(* on: the hook as the loop leaves it, or a TypeError.                      *)
FindEach(hook, index) ==
  IF index > Len(Get(hook.result, kData).q) THEN hook
  ELSE FindStore(hook, index,
                 SerializedItem(hook, Get(hook.result, kData).q[index],
                                JsonItem(Get(hook.result, kData).q[index])))

(* jsonapifyViaFind on a model, after the forEach: included is dropped when *)
(* empty and deduplicated otherwise, then createMetadata.                   *)
AfterFindEach(looped) ==
  IF Threw(looped) THEN TypeError
  ELSE createMetadata(
         [looped EXCEPT !.result =
            IF Get(looped.result, kIncluded).q = <<>>
            THEN Delete(looped.result, kIncluded)
            ELSE Put(looped.result, kIncluded,
                     Arr(removeDuplicateRecords(Get(looped.result, kIncluded).q)))])

(* newResult.data of jsonapifyViaFind on a service without a model. *)
PlainFindData(hook, options) ==
  CASE IsArr(hook.result) /\ Len(hook.result.q) > 1 ->
         Arr([i \in 1..Len(hook.result.q) |->
                serializePlainObject(hook.result.q[i], options, hook)])
    [] ~IsArr(hook.result) /\ Len(Keys(hook.result)) > 0 ->
         Arr(<<serializePlainObject(hook.result, options, hook)>>)
    [] OTHER -> Arr(<<>>)

(* jsonapifyViaFind(hook, options): the hook as it is left, or a TypeError. *)
jsonapifyViaFind(hook, options) ==
  IF mustParseAsSequelize(hook)
  THEN AfterFindEach(FindEach([hook EXCEPT !.result = Put(hook.result, kIncluded, Arr(<<>>))], 1))
  ELSE [hook EXCEPT !.result = Obj(<<[k |-> kData, v |-> PlainFindData(hook, options)]>>)]

(* hook.result = { data: serialized.document, included: serialized.related } *)
(* with the empty included deleted and data.links set, parent added.        *)
GetDocument(hook, serialized) ==
  Put(IF Truthy(serialized.related) /\ serialized.related.q = <<>>
      THEN Obj(<<[k |-> kData, v |-> serialized.document]>>)
      ELSE Obj(<<[k |-> kData, v |-> serialized.document],
                 [k |-> kIncluded, v |-> serialized.related]>>),
      kData,
      Put(serialized.document, kLinks,
          Put(serialized.links, kParent, Str(Slash \o hook.Model.name))))

(* jsonapifyViaGet on a model, once the record is serialized. *)
AfterGetSerialized(hook, serialized) ==
  IF Threw(serialized) THEN TypeError
  ELSE createMetadata([hook EXCEPT !.result = GetDocument(hook, serialized)])

(* jsonapifyViaGet(hook, options): the hook as it is left, or a TypeError. *)
jsonapifyViaGet(hook, options) ==
  IF mustParseAsSequelize(hook)
  THEN AfterGetSerialized(hook, SerializedItem(hook, hook.result, JsonItem(hook.result)))
  ELSE [hook EXCEPT !.result =
          Put(hook.result, kData, serializePlainObject(hook.result, options, hook))]

(* The hook function module.exports(options) returns, applied to a hook:    *)
(* the hook the promise resolves to, or the TypeError it throws.            *)
Entry(options, hook) ==
  CASE hook.method = "find" -> jsonapifyViaFind(hook, options)
    [] hook.method = "get" -> jsonapifyViaGet(hook, options)
    [] OTHER -> hook

---------------------------------------------------------------------------
(* Inputs *)

MaxRecords == 2

MaxKeys == 3

MaxSkip == 4

MaxLimit == 3

MaxTotal == 15

MaxIncluded == 3

topics == <<"t", "o", "p", "i", "c", "s">>

tag == <<"t", "a", "g">>

person == <<"p", "e", "r", "s", "o", "n">>

cinema == <<"c", "i", "n", "e", "m", "a">>

comedy == <<"c", "o", "m", "e", "d", "y">>

sports == <<"s", "p", "o", "r", "t", "s">>

kName == <<"n", "a", "m", "e">>

kSlug == <<"s", "l", "u", "g">>

kCreatedAt == <<"c", "r", "e", "a", "t", "e", "d", "A", "t">>

kParentTopicId == <<"p", "a", "r", "e", "n", "t", "T", "o", "p", "i", "c", "I", "d">>

kParentTopic == <<"p", "a", "r", "e", "n", "t", "T", "o", "p", "i", "c">>

kSubTopics == <<"s", "u", "b", "_", "t", "o", "p", "i", "c", "s">>

kTopicId == <<"t", "o", "p", "i", "c", "_", "i", "d">>

kFirstName == <<"f", "i", "r", "s", "t", "N", "a", "m", "e">>

kFirstDashName == <<"f", "i", "r", "s", "t", "-", "n", "a", "m", "e">>

kIsEnabled == <<"i", "s", "E", "n", "a", "b", "l", "e", "d">>

kKind == <<"k", "i", "n", "d">>

kUid == <<"u", "i", "d">>

kPageCount == <<"p", "a", "g", "e", "C", "o", "u", "n", "t">>

kPageDashCount == <<"p", "a", "g", "e", "-", "c", "o", "u", "n", "t">>

kVersion == <<"V", "e", "r", "s", "i", "o", "n">>

(* The sequences without repeats, of at most n elements of S. *)
DistinctSeqs(S, n) ==
  UNION {{q \in [1..len -> S] : \A i, j \in 1..len : i # j => q[i] # q[j]} : len \in 0..n}

(* The sequences of at most n elements of S. *)
SeqsUpTo(S, n) == UNION {[1..len -> S] : len \in 0..n}

(* A value that tells which field it was given to. *)
ValueOf(key) == Str(<<"=">> \o key)

(* The object with the given keys in the given order, each with its own value. *)
ObjectOf(keys) == Obj([i \in 1..Len(keys) |-> [k |-> keys[i], v |-> ValueOf(keys[i])]])

(* The topics model of the README: `id` is the primary key. *)
TopicModel ==
  Model(topics, <<[name |-> kId, primaryKey |-> TRUE],
                  [name |-> kName, primaryKey |-> FALSE],
                  [name |-> kCreatedAt, primaryKey |-> FALSE],
                  [name |-> kParentTopicId, primaryKey |-> FALSE]>>)

(* A model whose primary key is not `id` and is not declared first. *)
TagModel ==
  Model(tag, <<[name |-> kId, primaryKey |-> FALSE],
               [name |-> kSlug, primaryKey |-> TRUE],
               [name |-> kName, primaryKey |-> FALSE]>>)

Models == {TopicModel, TagModel}

(* A model none of whose attributes is flagged as primary key. *)
NoKeyModel ==
  Model(tag, <<[name |-> kId, primaryKey |-> FALSE],
               [name |-> kName, primaryKey |-> FALSE]>>)

(* belongsTo: the parent topic, embedded under parentTopic. *)
ParentInclude == Include(kParentTopic, TopicModel, kId, kParentTopicId, FALSE)

(* hasMany under the underscored convention: the sub-topics. *)
SubTopicsInclude == Include(kSubTopics, TopicModel, kId, kTopicId, TRUE)

IncludeLists ==
  {<<>>, <<ParentInclude>>, <<SubTopicsInclude>>, <<ParentInclude, SubTopicsInclude>>}

Contexts == {Context(Undef)} \cup {Context(Arr(q)) : q \in IncludeLists}

RecordIds == {cinema, comedy}

(* An embedded topic, as toJSON gives it. *)
RelatedTopic(id) ==
  Obj(<<[k |-> kId, v |-> Str(id)],
        [k |-> kName, v |-> ValueOf(id)],
        [k |-> kParentTopicId, v |-> Null]>>)

(* An embedded topic with its own parent embedded, whose parent is null. *)
NestedTopic(id, parentId) ==
  Put(RelatedTopic(id), kParentTopic, Put(RelatedTopic(parentId), kParentTopic, Null))

(* What a record may hold under parentTopic: nothing (absent), null, a      *)
(* value that is neither a record nor a sequence (the bare id), a topic, or *)
(* a topic with its own parent embedded.                                    *)
ParentValues ==
  {Undef, Null, Str(sports), NestedTopic(sports, comedy)}
    \cup {RelatedTopic(id) : id \in {sports, cinema}}

(* What a record may hold under sub_topics: nothing, or topics, the same    *)
(* one twice included.                                                      *)
SubTopicValues ==
  {Undef} \cup {Arr([i \in 1..Len(q) |-> RelatedTopic(q[i])]) :
                  q \in SeqsUpTo({sports, cinema}, MaxRecords)}

(* A record of a model, as toJSON gives it: the model's attributes, then    *)
(* the embedded associations that are there.                                *)
RecordOf(model, id, parent, subTopics) ==
  LET own == [i \in 1..Len(model.attributes) |->
                [k |-> model.attributes[i].name,
                 v |-> IF model.attributes[i].name \in {kId, kSlug}
                       THEN Str(id) ELSE ValueOf(model.attributes[i].name)]]
      one == IF parent = Undef THEN own ELSE Append(own, [k |-> kParentTopic, v |-> parent])
  IN Obj(IF subTopics = Undef THEN one ELSE Append(one, [k |-> kSubTopics, v |-> subTopics]))

RecordsOf(m) ==
  {RecordOf(m, id, p, q) : id \in RecordIds, p \in ParentValues, q \in SubTopicValues}

(* The records of a collection: no association is embedded. *)
CollectionsOf(m) ==
  {Arr([i \in 1..Len(q) |-> RecordOf(m, q[i], Undef, Undef)]) :
     q \in SeqsUpTo(RecordIds, MaxRecords)}

(* The instances a model-backed service returns: without an include, with   *)
(* the parent topic included and embedded, and with the sub-topics too, the *)
(* parent being twice among them.                                           *)
InstancesOf(m) ==
  {Instance(RecordOf(m, id, Undef, Undef), Context(Undef)) : id \in RecordIds}
    \cup {Instance(RecordOf(m, id, RelatedTopic(sports), Undef),
                   Context(Arr(<<ParentInclude>>))) : id \in RecordIds}
    \cup {Instance(RecordOf(m, cinema, RelatedTopic(sports),
                            Arr(<<RelatedTopic(sports), RelatedTopic(sports)>>)),
                   Context(Arr(<<ParentInclude, SubTopicsInclude>>)))}

(* The result of a paginated or unpaginated find: total, limit and skip,    *)
(* those that are defined, then data.                                       *)
Envelope(total, limit, skip, data) ==
  Obj(SelectSeq(<<[k |-> kTotal, v |-> total], [k |-> kLimit, v |-> limit],
                  [k |-> kSkip, v |-> skip], [k |-> kData, v |-> data]>>,
                LAMBDA e : e.v # Undef))

NumOrUndef(S) == {Undef} \cup {Num(n) : n \in S}

FindResultsOf(m) ==
  {Envelope(total, limit, skip, Arr(q)) :
     total \in NumOrUndef({0, 3, 15}), limit \in NumOrUndef({2}),
     skip \in NumOrUndef({0, 2}), q \in SeqsUpTo(InstancesOf(m), MaxRecords)}

(* The plain objects of a service without a model. *)
PlainKeys == {kFirstName, kFirstDashName, kIsEnabled, kKind, kUid}

PlainItems == {ObjectOf(keys) : keys \in DistinctSeqs(PlainKeys, MaxKeys)}

PlainFindItems == {ObjectOf(<<kFirstName, kUid>>), ObjectOf(<<kFirstName, kKind>>)}

OptionSets ==
  {Options(i, k) : i \in {Undef, Str(kUid), Str(kFirstName)}, k \in {Undef, Str(kKind)}}

(* The README's result of a find: {data: [...], total: 15, limit: 2, skip: 0}. *)
ReadmeFindResult ==
  Obj(<<[k |-> kData, v |-> Arr(<<>>)], [k |-> kTotal, v |-> Num(15)],
        [k |-> kLimit, v |-> Num(2)], [k |-> kSkip, v |-> Num(0)]>>)

MetaKeys == {kData, kMeta, kTotal, kPageCount, kPageDashCount, kVersion}

(* The collections given to removeDuplicateRecords: resource objects, two   *)
(* ids and, to tell two resources of one id apart, two types.               *)
IncludedCollections ==
  SeqsUpTo({Obj(<<[k |-> kType, v |-> Str(type)], [k |-> kId, v |-> Str(id)]>>) :
              type \in {topics, tag}, id \in RecordIds},
           MaxIncluded)

MetadataResults ==
  {ObjectOf(keys) : keys \in DistinctSeqs(MetaKeys, MaxKeys)} \cup {ReadmeFindResult}

PaginationResults ==
  {Envelope(total, limit, skip, Arr(<<>>)) :
     total \in NumOrUndef(0..MaxTotal), limit \in NumOrUndef(0..MaxLimit),
     skip \in NumOrUndef(0..MaxSkip)}

---------------------------------------------------------------------------
(* The state: the function being applied (op, "idle" between two calls),    *)
(* what it is applied to (arg) and what it gives (out).  The module keeps   *)
(* nothing between two calls.                                               *)

Init ==
  /\ op = "idle"
  /\ arg = Undef
  /\ out = Undef

(* The call is over: its arguments and its result are dropped. *)
Return ==
  /\ op # "idle"
  /\ op' = "idle"
  /\ arg' = Undef
  /\ out' = Undef

(* The hooks of a find on a service with a model. *)
ModelFindHooks ==
  UNION {{Hook("find", topics, m, Undef, r) : r \in FindResultsOf(m)} : m \in Models}

(* The hooks of a find on a service without one: a sequence of plain        *)
(* objects, one plain object, or an empty object.                           *)
PlainFindHooks ==
  {Hook("find", person, Undef, Str(person), r) :
     r \in {Arr(q) : q \in SeqsUpTo(PlainFindItems, MaxRecords)}
             \cup PlainFindItems \cup {EmptyObj}}

ModelGetHooks ==
  UNION {{Hook("get", topics, m, Undef, r) : r \in InstancesOf(m)} : m \in Models}

PlainGetHooks == {Hook("get", person, Undef, Str(person), r) : r \in PlainFindItems}

(* A call of the hook: the options matter on a service without a model only. *)
Calls(modelHooks, plainHooks) ==
  {[hook |-> h, options |-> Options(Undef, Undef)] : h \in modelHooks}
    \cup {[hook |-> h, options |-> o] : h \in plainHooks, o \in OptionSets}

(* The hook runs after a find. *)
AfterFind ==
  \E call \in Calls(ModelFindHooks, PlainFindHooks) :
    /\ op = "idle"
    /\ op' = "find"
    /\ arg' = call
    /\ out' = Entry(call.options, call.hook)

(* The hook runs after a get. *)
AfterGet ==
  \E call \in Calls(ModelGetHooks, PlainGetHooks) :
    /\ op = "idle"
    /\ op' = "get"
    /\ arg' = call
    /\ out' = Entry(call.options, call.hook)

(* The hook runs after another method. *)
AfterOther ==
  \E hook \in {Hook(method, person, Undef, Str(person), r) :
                 method \in {"create", "remove"}, r \in PlainFindItems},
     options \in OptionSets :
    /\ op = "idle"
    /\ op' = "other"
    /\ arg' = [hook |-> hook, options |-> options]
    /\ out' = Entry(options, hook)

(* jsonapify(data, model, selfUrl, context) on a record or a collection. *)
CallJsonapify ==
  \E m \in Models \cup {NoKeyModel}, context \in Contexts :
    \E data \in RecordsOf(m) \cup CollectionsOf(m) :
      /\ op = "idle"
      /\ op' = "jsonapify"
      /\ arg' = [data |-> data, model |-> m, context |-> context]
      /\ out' = jsonapify(data, m, m.name \o Slash \o ToStr(Get(data, kId)), context)

(* context.include.forEach(parseRelationships(data, includedData)), as       *)
(* jsonapify runs it on a record with an empty included accumulator.        *)
CallParseRelationships ==
  \E data \in RecordsOf(TopicModel), includes \in IncludeLists \ {<<>>} :
    /\ op = "idle"
    /\ op' = "parseRelationships"
    /\ arg' = [data |-> data, includes |-> includes]
    /\ out' = ParseAll(data, <<>>, includes)

(* removeDuplicateRecords(collection) *)
CallRemoveDuplicateRecords ==
  \E collection \in IncludedCollections :
    /\ op = "idle"
    /\ op' = "removeDuplicateRecords"
    /\ arg' = Arr(collection)
    /\ out' = Arr(removeDuplicateRecords(collection))

(* createPagination(hook) *)
CallCreatePagination ==
  \E r \in PaginationResults :
    /\ op = "idle"
    /\ op' = "createPagination"
    /\ arg' = Hook("find", topics, TopicModel, Undef, r)
    /\ out' = createPagination(arg')

(* createMetadata(hook) *)
CallCreateMetadata ==
  \E r \in MetadataResults :
    /\ op = "idle"
    /\ op' = "createMetadata"
    /\ arg' = Hook("find", topics, TopicModel, Undef, r)
    /\ out' = createMetadata(arg')

(* serializePlainObject(item, options, hook) *)
CallSerializePlainObject ==
  \E item \in PlainItems, options \in OptionSets :
    /\ op = "idle"
    /\ op' = "serializePlainObject"
    /\ arg' = [item |-> item, options |-> options,
               hook |-> Hook("find", person, Undef, Str(person), item)]
    /\ out' = serializePlainObject(item, options, arg'.hook)

Next ==
  \/ AfterFind
  \/ AfterGet
  \/ AfterOther
  \/ CallJsonapify
  \/ CallParseRelationships
  \/ CallRemoveDuplicateRecords
  \/ CallCreatePagination
  \/ CallCreateMetadata
  \/ CallSerializePlainObject
  \/ Return

Spec == Init /\ [][Next]_vars

---------------------------------------------------------------------------
(* Properties *)

(* The attributes a model flags as primary key. *)
PrimaryKeys(model) ==
  {model.attributes[i].name : i \in {j \in 1..Len(model.attributes) :
                                        model.attributes[j].primaryKey}}

(* The resource objects of a document: itself, or its elements. *)
ResourcesOf(document) ==
  CASE IsArr(document) -> {document.q[i] : i \in 1..Len(document.q)}
    [] IsObj(document) -> {document}
    [] OTHER -> {}

C1_Outputs ==
  ResourcesOf(out.document)
    \cup (IF out.related = Undef THEN {} ELSE ResourcesOf(out.related))

(* C1: whatever record or collection jsonapify is given, with a model that  *)
(* flags one attribute as primary key, no resource object it returns (in    *)
(* the document or among the related resources) has the primary-key         *)
(* attribute's name as a key of its `attributes`.                           *)
C1_PrimaryKeyNotInAttributes ==
  (op = "jsonapify" /\ ~Threw(out)) =>
    \A resource \in C1_Outputs :
      \A key \in PrimaryKeys(arg.model) :
        ~Has(Get(resource, kAttributes), key)

(* C1 happens: a collection of two records that both hold the primary key   *)
(* is serialized, and both resource objects have attributes.                *)
C1_Witness ==
  /\ op = "jsonapify"
  /\ ~Threw(out)
  /\ IsArr(arg.data)
  /\ Len(arg.data.q) = 2
  /\ \A i \in 1..2 : \A key \in PrimaryKeys(arg.model) : Has(arg.data.q[i], key)
  /\ IsArr(out.document)
  /\ \A i \in 1..2 : Len(Keys(Get(out.document.q[i], kAttributes))) > 0

(* A number in decimal. *)
C3_Decimal(n) == IF n < 0 THEN <<"-">> \o Digits(-n) ELSE Digits(n)

(* "/<path>?$skip=<n>" *)
C3_SkipTo(path, n) == Str(<<"/">> \o path \o <<"?", "$", "s", "k", "i", "p", "=">> \o C3_Decimal(n))

(* The link `last` is to: floor(total / limit) * limit, which is not a      *)
(* number when limit is 0.                                                  *)
C3_Last(path, total, limit) ==
  IF limit = 0
  THEN Str(<<"/">> \o path \o <<"?", "$", "s", "k", "i", "p", "=", "N", "a", "N">>)
  ELSE C3_SkipTo(path, (total \div limit) * limit)

C3_Links(path, skip, limit, total) ==
  (IF skip >= limit THEN {[k |-> kFirst, v |-> Str(<<"/">> \o path)]} ELSE {})
    \cup (IF skip + limit < total THEN {[k |-> kNext, v |-> C3_SkipTo(path, skip + limit)]} ELSE {})
    \cup (IF skip + limit > limit THEN {[k |-> kPrev, v |-> C3_SkipTo(path, skip - limit)]} ELSE {})
    \cup (IF skip + limit < total THEN {[k |-> kLast, v |-> C3_Last(path, total, limit)]} ELSE {})

(* C3: for non-negative integers skip, limit and total, createPagination    *)
(* leaves a links object with exactly these entries: first = "/<path>" iff  *)
(* skip >= limit; next to skip + limit iff skip + limit < total; prev to    *)
(* skip - limit iff skip + limit > limit; last to                           *)
(* floor(total / limit) * limit iff skip + limit < total.  On `topics`,     *)
(* {skip: 0, limit: 2, total: 15} gives exactly next = "/topics?$skip=2"    *)
(* and last = "/topics?$skip=14", and {skip: 2, limit: 2, total: 15} gives  *)
(* the four links.                                                          *)
C3_PaginationLinks ==
  (op = "createPagination"
     /\ Get(arg.result, kSkip) # Undef
     /\ Get(arg.result, kLimit) # Undef
     /\ Get(arg.result, kTotal) # Undef) =>
    LET skip == Get(arg.result, kSkip).n
        limit == Get(arg.result, kLimit).n
        total == Get(arg.result, kTotal).n
        links == Get(out.result, kLinks)
    IN /\ IsObj(links)
       /\ {links.f[i] : i \in 1..Len(links.f)} = C3_Links(arg.path, skip, limit, total)
       /\ Len(links.f) = Cardinality(C3_Links(arg.path, skip, limit, total))
       /\ (skip = 0 /\ limit = 2 /\ total = 15) =>
            links = Obj(<<[k |-> kNext,
                           v |-> Str(<<"/", "t", "o", "p", "i", "c", "s", "?", "$", "s", "k", "i", "p", "=", "2">>)],
                          [k |-> kLast,
                           v |-> Str(<<"/", "t", "o", "p", "i", "c", "s", "?", "$", "s", "k", "i", "p", "=", "1", "4">>)]>>)
       /\ (skip = 2 /\ limit = 2 /\ total = 15) =>
            {links.f[i].k : i \in 1..Len(links.f)} = {kFirst, kNext, kPrev, kLast}

(* C3 happens: createPagination ran on {skip: 2, limit: 2, total: 15} and   *)
(* left the four links.                                                     *)
C3_Witness ==
  /\ op = "createPagination"
  /\ Get(arg.result, kSkip) = Num(2)
  /\ Get(arg.result, kLimit) = Num(2)
  /\ Get(arg.result, kTotal) = Num(15)
  /\ Len(Get(out.result, kLinks).f) = 4

(* The hook ran after a find or a get on a service with a model. *)
OnModel(method) ==
  /\ op = method
  /\ arg.hook.Model # Undef

(* The records the service returned: that of a get, those of a find. *)
InputRecords ==
  IF op = "get" THEN <<arg.hook.result.json>>
  ELSE [i \in 1..Len(Get(arg.hook.result, kData).q) |-> Get(arg.hook.result, kData).q[i].json]

(* The resource objects of the document's data, in order. *)
DataResources ==
  IF IsArr(Get(out.result, kData)) THEN Get(out.result, kData).q
  ELSE <<Get(out.result, kData)>>

(* The identifiers of the records embedded in a record: its parent topic    *)
(* and its sub-topics.                                                      *)
C2_Embedded(record) ==
  (IF IsObj(Get(record, kParentTopic)) THEN {Get(Get(record, kParentTopic), kId)} ELSE {})
    \cup (IF IsArr(Get(record, kSubTopics))
          THEN {Get(Get(record, kSubTopics).q[i], kId) :
                  i \in 1..Len(Get(record, kSubTopics).q)}
          ELSE {})

C2_Included ==
  IF Present(out.result, kIncluded) THEN Get(out.result, kIncluded).q ELSE <<>>

(* C2: a find or a get on a service with a model completes, and in its      *)
(* document no two resource objects of `included` have the same id, while   *)
(* every related record embedded in a record of the result (in several      *)
(* parents, under several associations, several times in one association)   *)
(* is in `included`: exactly once, then.                                    *)
C2_IncludedOncePerIdentifier ==
  (OnModel("find") \/ OnModel("get")) =>
    /\ ~Threw(out)
    /\ \A i, j \in 1..Len(C2_Included) :
         Get(C2_Included[i], kId) = Get(C2_Included[j], kId) => i = j
    /\ \A k \in 1..Len(InputRecords) :
         \A id \in C2_Embedded(InputRecords[k]) :
           \E i \in 1..Len(C2_Included) : Get(C2_Included[i], kId) = id

(* C4: when a find on a service with a model returns, whatever the number   *)
(* of records, its document has a top-level `links` if and only if the      *)
(* result had `skip`, `limit` and `total`, all three.                       *)
C4_LinksIffPaginated ==
  (OnModel("find") /\ ~Threw(out)) =>
    (Present(out.result, kLinks)
       <=> /\ Present(arg.hook.result, kSkip)
           /\ Present(arg.hook.result, kLimit)
           /\ Present(arg.hook.result, kTotal))

(* The records of a fallback find: the elements of a sequence, the one      *)
(* record that is not empty, none.                                          *)
C5_Records ==
  CASE IsArr(arg.hook.result) -> arg.hook.result.q
    [] Len(Keys(arg.hook.result)) > 0 -> <<arg.hook.result>>
    [] OTHER -> <<>>

(* C5: a find on a service without a model leaves in `data` one serialized  *)
(* resource per record, in order: every element of a sequence, be there one *)
(* or several (one element gives what the bare record gives), the bare      *)
(* record that is not empty, and nothing for an empty input.                *)
C5_FallbackData ==
  (op = "find" /\ arg.hook.Model = Undef) =>
    /\ ~Threw(out)
    /\ Get(out.result, kData)
         = Arr([i \in 1..Len(C5_Records) |->
                  serializePlainObject(C5_Records[i], arg.options, arg.hook)])

(* The dash-cased name of a top-level field of a result. *)
C6_DashCasedName(key) ==
  CASE key = kPageCount -> <<"p", "a", "g", "e", "-", "c", "o", "u", "n", "t">>
    [] key = kVersion -> <<"v", "e", "r", "s", "i", "o", "n">>
    [] OTHER -> key

(* The positions, in the result, of the fields that are moved. *)
C6_Moved ==
  {i \in 1..Len(arg.result.f) :
     arg.result.f[i].k \notin {<<"d", "a", "t", "a">>,
                               <<"i", "n", "c", "l", "u", "d", "e", "d">>,
                               <<"m", "e", "t", "a">>,
                               <<"l", "i", "n", "k", "s">>}}

(* The README's example: total, limit and skip end up in meta. *)
C6_Example ==
  arg.result = ReadmeFindResult =>
    out.result = Obj(<<[k |-> kData, v |-> Arr(<<>>)],
                       [k |-> kMeta,
                        v |-> Obj(<<[k |-> kTotal, v |-> Num(15)],
                                    [k |-> kLimit, v |-> Num(2)],
                                    [k |-> kSkip, v |-> Num(0)]>>)]>>)

(* C6 as stated: after createMetadata every top-level field other than      *)
(* data, included, meta and links is gone from the top level and is in      *)
(* `meta` under its dash-cased name with its original value; a result       *)
(* without such a field is unchanged; the README's example holds.           *)
C6_MovedWithOriginalValue ==
  op = "createMetadata" =>
    /\ C6_Moved = {} => out = arg
    /\ \A i \in C6_Moved :
         /\ ~Has(out.result, arg.result.f[i].k)
         /\ Has(Get(out.result, kMeta), C6_DashCasedName(arg.result.f[i].k))
         /\ Get(Get(out.result, kMeta), C6_DashCasedName(arg.result.f[i].k))
              = arg.result.f[i].v
    /\ C6_Example

(* C6, amended: the same, but under a dash-cased name `meta` holds the      *)
(* value of the last of the moved fields that have this dash-cased name,    *)
(* which is the field's own value when no other moved field shares it;      *)
(* `meta` has no other key, and the fields that are not moved stay.         *)
C6_MovedLastValueWins ==
  op = "createMetadata" =>
    /\ C6_Moved = {} => out = arg
    /\ \A i \in C6_Moved :
         /\ ~Has(out.result, arg.result.f[i].k)
         /\ Has(Get(out.result, kMeta), C6_DashCasedName(arg.result.f[i].k))
         /\ (\A j \in C6_Moved :
               C6_DashCasedName(arg.result.f[j].k) = C6_DashCasedName(arg.result.f[i].k)
                 => j <= i)
              => Get(Get(out.result, kMeta), C6_DashCasedName(arg.result.f[i].k))
                   = arg.result.f[i].v
    /\ C6_Moved # {} =>
         /\ {Keys(Get(out.result, kMeta))[n] : n \in 1..Len(Keys(Get(out.result, kMeta)))}
              = {C6_DashCasedName(arg.result.f[i].k) : i \in C6_Moved}
         /\ \A i \in (1..Len(arg.result.f)) \ C6_Moved :
              arg.result.f[i].k # kMeta =>
                Get(out.result, arg.result.f[i].k) = arg.result.f[i].v
    /\ C6_Example

(* C6 happens: createMetadata ran on the README's result and moved total,   *)
(* limit and skip.                                                          *)
C6_Witness ==
  /\ op = "createMetadata"
  /\ arg.result = ReadmeFindResult
  /\ ~Has(out.result, kTotal)
  /\ Get(Get(out.result, kMeta), kTotal) = Num(15)

(* C7: a find or a get on a service with a model completes, and the         *)
(* resource object built from a record has links.self =                     *)
(* "/" + path + "/" + the record's id.                                      *)
C7_SelfLinks ==
  (OnModel("find") \/ OnModel("get")) =>
    /\ ~Threw(out)
    /\ Len(DataResources) = Len(InputRecords)
    /\ \A i \in 1..Len(InputRecords) :
         Get(Get(DataResources[i], kLinks), kSelf)
           = Str(<<"/">> \o arg.hook.path \o <<"/">> \o Get(InputRecords[i], kId).s)

(* C8: a find on a service with a model, whose result holds n records,      *)
(* completes with exactly n resource objects in `data`, the i-th with the   *)
(* id of the i-th record, all typed with the model's name.                  *)
C8_OneResourcePerRecord ==
  OnModel("find") =>
    /\ ~Threw(out)
    /\ IsArr(Get(out.result, kData))
    /\ Len(DataResources) = Len(InputRecords)
    /\ \A i \in 1..Len(InputRecords) :
         /\ Get(DataResources[i], kId) = Get(InputRecords[i], kId)
         /\ Get(DataResources[i], kType) = Str(arg.hook.Model.name)

(* The dash-cased name of a field of a plain object. *)
C9_DashCasedName(key) ==
  CASE key = kFirstName -> <<"f", "i", "r", "s", "t", "-", "n", "a", "m", "e">>
    [] key = kIsEnabled -> <<"i", "s", "-", "e", "n", "a", "b", "l", "e", "d">>
    [] OTHER -> key

(* The positions, in the record, of the fields that are not the             *)
(* identifierKey or the typeKey.                                            *)
C9_Fields ==
  {i \in 1..Len(arg.item.f) :
     /\ Str(arg.item.f[i].k) # arg.options.identifierKey
     /\ Str(arg.item.f[i].k) # arg.options.typeKey}

(* The id the resource is to have. *)
C9_Id ==
  IF arg.options.identifierKey # Undef
  THEN Get(arg.item, arg.options.identifierKey.s)
  ELSE generateFauxId(arg.item)

(* The id as it is written in a link. *)
C9_IdText ==
  IF C9_Id = Undef THEN <<"u", "n", "d", "e", "f", "i", "n", "e", "d">> ELSE C9_Id.s

(* id, type and links.self of the resource, and the keys of its attributes. *)
C9_Frame ==
  /\ Keys(out) = <<kId, kType, kAttributes, kLinks>>
  /\ Get(out, kId) = C9_Id
  /\ Get(out, kType) = (IF arg.options.typeKey # Undef
                        THEN Get(arg.item, arg.options.typeKey.s)
                        ELSE arg.hook.serviceName)
  /\ Get(out, kLinks)
       = Obj(<<[k |-> kSelf, v |-> Str(<<"/">> \o arg.hook.path \o <<"/">> \o C9_IdText)]>>)
  /\ {Keys(Get(out, kAttributes))[n] : n \in 1..Len(Keys(Get(out, kAttributes)))}
       = {C9_DashCasedName(arg.item.f[i].k) : i \in C9_Fields}

C10_KeysOf(o) == {Keys(o)[n] : n \in {m \in 1..Len(Keys(o)) : Present(o, Keys(o)[m])}}

(* C10: a get of one record of a service with a model, without association  *)
(* and without pagination fields, completes with a document                 *)
(* {data: {type, id, attributes, links: {self}}}: no `included` in the      *)
(* document, no `relationships` in the resource.                            *)
C10_GetShape ==
  (OnModel("get") /\ arg.hook.result.options.include = Undef) =>
    /\ ~Threw(out)
    /\ C10_KeysOf(out.result) = {kData}
    /\ C10_KeysOf(Get(out.result, kData)) = {kType, kId, kAttributes, kLinks}
    /\ Present(Get(Get(out.result, kData), kLinks), kSelf)

(* C11: when no attribute of the model is flagged as primary key, jsonapify *)
(* fails with an error the caller gets: it returns no document.             *)
C11_NoPrimaryKeyFails ==
  (op = "jsonapify" /\ PrimaryKeys(arg.model) = {}) => Threw(out)

(* The value embedded in a record under a descriptor's `as`. *)
EmbeddedUnder(record, include) ==
  IF Has(record, include.as) THEN EntryValue(record.f, include.as) ELSE Undef

(* The embedded value gives a reference: it is a record or a sequence. *)
GivesReference(value) == IsObj(value) \/ IsArr(value)

(* C12: when the value embedded under every descriptor is absent, null, or  *)
(* neither a record nor a sequence, parseRelationships completes without    *)
(* raising, leaves no `relationships` in the record and nothing in the      *)
(* included accumulator (no nested call has added to it).                   *)
C12_NoReferenceNoRaise ==
  (op = "parseRelationships"
     /\ \A i \in 1..Len(arg.includes) :
          ~GivesReference(EmbeddedUnder(arg.data, arg.includes[i]))) =>
    /\ ~Threw(out)
    /\ out.includedData = <<>>
    /\ ~Has(out.data, kRelationships)

(* The name a descriptor's entry has in `relationships`. *)
C13_RelationshipName(include) ==
  IF include.as = kSubTopics
  THEN <<"s", "u", "b", "-", "t", "o", "p", "i", "c", "s">>
  ELSE include.as

(* The reference to a related record: its type and its id. *)
C13_Reference(include, related) ==
  Obj(<<[k |-> kType, v |-> Str(include.model.name)],
        [k |-> kId, v |-> EntryValue(related.f, kId)]>>)

(* The entry of a descriptor whose embedded value is a record or a sequence. *)
C13_Entry(include, value) ==
  Obj(<<[k |-> kData,
         v |-> IF IsArr(value)
               THEN Arr([n \in 1..Len(value.q) |-> C13_Reference(include, value.q[n])])
               ELSE C13_Reference(include, value)]>>)

(* C13: once parseRelationships has processed the descriptors of a record   *)
(* in order, `relationships` has an entry for a descriptor if and only if   *)
(* the value embedded under it is a record (the entry holds one reference)  *)
(* or a sequence (the entry holds the sequence of references, maybe empty); *)
(* the entry of an earlier descriptor is there after the later ones.        *)
C13_EntryIffReference ==
  (op = "parseRelationships" /\ ~Threw(out)) =>
    \A i \in 1..Len(arg.includes) :
      /\ Has(Get(out.data, kRelationships), C13_RelationshipName(arg.includes[i]))
           <=> GivesReference(EmbeddedUnder(arg.data, arg.includes[i]))
      /\ GivesReference(EmbeddedUnder(arg.data, arg.includes[i])) =>
           Get(Get(out.data, kRelationships), C13_RelationshipName(arg.includes[i]))
             = C13_Entry(arg.includes[i], EmbeddedUnder(arg.data, arg.includes[i]))

(* C13 happens: two descriptors were processed, the first on an embedded    *)
(* record, the second on an empty sequence, and both entries are there.     *)
C13_Witness ==
  /\ op = "parseRelationships"
  /\ ~Threw(out)
  /\ Len(arg.includes) = 2
  /\ IsObj(EmbeddedUnder(arg.data, arg.includes[1]))
  /\ EmbeddedUnder(arg.data, arg.includes[2]) = Arr(<<>>)
  /\ Len(Keys(Get(out.data, kRelationships))) = 2

(* The descriptors jsonapify was given. *)
C14_Includes ==
  IF arg.context.include = Undef THEN <<>> ELSE arg.context.include.q

(* The number of records embedded in the record right under a descriptor. *)
C14_EmbeddedCount(include) ==
  CASE IsArr(EmbeddedUnder(arg.data, include)) -> Len(EmbeddedUnder(arg.data, include).q)
    [] IsObj(EmbeddedUnder(arg.data, include)) -> 1
    [] OTHER -> 0

C14_Related == IF out.related = Undef THEN <<>> ELSE out.related.q

(* C14: jsonapify ends on every record, a self-referencing association and  *)
(* a related record with its own parent embedded included; when it returns, *)
(* the related resources are those of the records embedded right under the  *)
(* descriptors, one each, and none has `relationships` or an embedded       *)
(* record among its attributes: the nested call had no include list.        *)
C14_OneLevelOnly ==
  (op = "jsonapify" /\ IsObj(arg.data)) =>
    /\ out.t \in {"result", "throw"}
    /\ ~Threw(out) =>
         /\ \A n \in 1..Len(C14_Related) :
              /\ ~Has(C14_Related[n], kRelationships)
              /\ ~Has(Get(C14_Related[n], kAttributes), kRelationships)
              /\ ~Has(Get(C14_Related[n], kAttributes), kParentTopic)
              /\ \E i \in 1..Len(C14_Includes) :
                   LET value == EmbeddedUnder(arg.data, C14_Includes[i])
                   IN \/ IsObj(value) /\ Get(C14_Related[n], kId) = Get(value, kId)
                      \/ IsArr(value) /\ \E e \in 1..Len(value.q) :
                                           Get(C14_Related[n], kId) = Get(value.q[e], kId)
         /\ Len(C14_Related)
              = (IF Len(C14_Includes) >= 1 THEN C14_EmbeddedCount(C14_Includes[1]) ELSE 0)
                  + (IF Len(C14_Includes) >= 2 THEN C14_EmbeddedCount(C14_Includes[2]) ELSE 0)

(* C14 happens: a record whose embedded parent has its own parent embedded  *)
(* was assembled with the self-referencing parent association, and the      *)
(* parent alone is among the related resources.                             *)
C14_Witness ==
  /\ op = "jsonapify"
  /\ ~Threw(out)
  /\ IsObj(arg.data)
  /\ Len(C14_Includes) >= 1
  /\ C14_Includes[1].model = TopicModel
  /\ IsObj(Get(EmbeddedUnder(arg.data, C14_Includes[1]), kParentTopic))
  /\ Len(C14_Related) = 1
  /\ Get(C14_Related[1], kId) = Str(sports)

(* The ids of the resource objects of a sequence. *)
C15_Ids(q) == {Get(q[n], kId) : n \in 1..Len(q)}

(* C15: removeDuplicateRecords returns one entry per id of its input, no    *)
(* two entries with one id, and every entry is the last element of the      *)
(* input that has its id.                                                   *)
C15_LastOccurrenceKept ==
  op = "removeDuplicateRecords" =>
    /\ C15_Ids(out.q) = C15_Ids(arg.q)
    /\ Len(out.q) = Cardinality(C15_Ids(arg.q))
    /\ \A i \in 1..Len(out.q) :
         \E n \in 1..Len(arg.q) :
           /\ arg.q[n] = out.q[i]
           /\ \A m \in (n + 1)..Len(arg.q) : Get(arg.q[m], kId) # Get(out.q[i], kId)

(* C15 happens: of three resources, the first and the last with one id and  *)
(* different types, two are returned, the last among them.                  *)
C15_Witness ==
  /\ op = "removeDuplicateRecords"
  /\ Len(arg.q) = 3
  /\ Get(arg.q[1], kId) = Get(arg.q[3], kId)
  /\ Get(arg.q[1], kId) # Get(arg.q[2], kId)
  /\ arg.q[1] # arg.q[3]
  /\ Len(out.q) = 2
  /\ \E i \in 1..2 : out.q[i] = arg.q[3]

(* C16: when the hook has completed a find or a get, on a service with a   *)
(* model or without, every top-level key of hook.result is one of data,     *)
(* included, links and meta.                                                *)
C16_TopLevelKeys ==
  (op \in {"find", "get"} /\ ~Threw(out)) =>
    \A n \in 1..Len(Keys(out.result)) :
      Keys(out.result)[n] \in {<<"d", "a", "t", "a">>,
                               <<"i", "n", "c", "l", "u", "d", "e", "d">>,
                               <<"l", "i", "n", "k", "s">>,
                               <<"m", "e", "t", "a">>}

(* The pagination links that have a `$skip` target. *)
C17_SkipLinks ==
  {Get(out.result, kLinks).f[n].v :
     n \in {m \in 1..Len(Get(out.result, kLinks).f) :
              Get(out.result, kLinks).f[m].k # <<"f", "i", "r", "s", "t">>}}

(* C17: for skip >= 0, total >= 0 and limit >= 1, every link createPagination *)
(* writes with a `$skip` target points at an offset o with 0 <= o < total.  *)
C17_TargetsInRange ==
  (op = "createPagination"
     /\ Get(arg.result, kSkip) # Undef
     /\ Get(arg.result, kTotal) # Undef
     /\ Get(arg.result, kLimit) # Undef
     /\ Get(arg.result, kLimit).n >= 1) =>
    \A link \in C17_SkipLinks :
      \E o \in 0..(Get(arg.result, kTotal).n - 1) : link = C3_SkipTo(arg.path, o)

=============================================================================
